---- MODULE Spec2Model ----
(***************************************************************************)
(* astrolearn: the orbit update loop (PlanetSystem), the camera focus and  *)
(* reset animations (Controls), the frame loop and input handlers          *)
(* (SolarSystemApp) and the pause / info-panel wiring (UI, PlanetInfo).    *)
(*                                                                         *)
(* Numbers.  Angles are counted in quarter turns (CosTable has one entry   *)
(* per unit), so Math.cos and Math.sin are exact integers.  Body positions *)
(* are integer scene units.  The camera position and the controls target   *)
(* are counted in 1/CoordScale of a scene unit, which makes every          *)
(* interpolated value of an animation whose frames fall on the FrameMs     *)
(* grid an exact integer.  Times are milliseconds.                         *)
(***************************************************************************)
EXTENDS Integers, Sequences, FiniteSets, TLC

\* ------------------------------------------------------------------ bounds
\* Frames fall on a grid of DurationMs / 2^GridBits milliseconds.
GridBits == 1
\* The clock stops after MaxFrames grid steps.
MaxFrames == 4
\* A frame may come up to MaxSkip grid steps after the previous one.
MaxSkip == 2
\* An input handler runs up to MaxLate grid steps after the timestamp of the
\* latest frame (the timestamp handed to the callbacks of a frame is fixed
\* before the input of that frame is dispatched).
MaxLate == 2
\* THREE.Clock.getDelta() returns 0..MaxDelta seconds.
MaxDelta == 1
\* The speed slider is set to 0..MaxSpeed.
MaxSpeed == 1
\* Math.random() * 2 * PI falls on quarter turn 0..MaxInitAngle.
MaxInitAngle == 0
\* /data/planets.json lists at most MaxBodies descriptors.
MaxBodies == 3
\* Where the easing is examined on its own, an animation lasts 2 * EaseHalf or
\* 4 * EaseHalf milliseconds and a frame comes at any millisecond.
EaseHalf == 4

\* ------------------------------------------------------- program constants
\* The duration every caller of focusOnPlanet and resetCamera passes.
DurationMs == 2000
\* planets.js: orbital_radius_au * 50.
AuScale == 50
\* planets.js: orbital_radius_earth || 5.
DefaultSatelliteRadius == 5
\* controls.js: Math.max(planetRadius * 5, 10).
RadiusFactor == 5
MinDistance == 10

Subdiv == 2 ^ GridBits
FrameMs == DurationMs \div Subdiv
MaxClock == MaxFrames * FrameMs
CoordScale == 4 * Subdiv * Subdiv * Subdiv

\* ------------------------------------------------------------ arithmetic
Abs(x) == IF x < 0 THEN -x ELSE x

RECURSIVE GCD(_, _)
GCD(a, b) == IF b = 0 THEN a ELSE GCD(b, a % b)

CosTable == <<1, 0, -1, 0>>
SinTable == <<0, 1, 0, -1>>
Rev == Len(CosTable)
Cos(a) == CosTable[(a % Rev) + 1]
Sin(a) == SinTable[(a % Rev) + 1]

Vec(x, y, z) == <<x, y, z>>
ZeroVec == Vec(0, 0, 0)
Scaled(v, k) == Vec(v[1] * k, v[2] * k, v[3] * k)
VAdd(v, w) == Vec(v[1] + w[1], v[2] + w[2], v[3] + w[3])

\* --------------------------------------------------- body descriptors
\* /data/planets.json is data, not code: three descriptors stand for it.
\* A field a descriptor does not carry is 0 (orbital_radius_earth) or "null".
Descriptors ==
    { [id |-> "sun", type |-> "star", relative_scale |-> 4,
       orbital_radius_au |-> 0, orbital_radius_earth |-> 0,
       orbital_period_days |-> 1, rotation_period_hours |-> 2, parent |-> "null"],
      [id |-> "earth", type |-> "planet", relative_scale |-> 1,
       orbital_radius_au |-> 1, orbital_radius_earth |-> 0,
       orbital_period_days |-> 4, rotation_period_hours |-> 1, parent |-> "null"],
      [id |-> "moon", type |-> "satellite", relative_scale |-> 1,
       orbital_radius_au |-> 0, orbital_radius_earth |-> 3,
       orbital_period_days |-> 2, rotation_period_hours |-> 2, parent |-> "earth"] }

\* Descriptors a data file can also carry: a zero orbital period, a zero
\* rotation period with a parent id that no descriptor has, and two
\* satellites that name each other as parent.
FaultyDescriptors ==
    { [id |-> "ceres", type |-> "planet", relative_scale |-> 1,
       orbital_radius_au |-> 2, orbital_radius_earth |-> 0,
       orbital_period_days |-> 0, rotation_period_hours |-> 1, parent |-> "null"],
      [id |-> "phobos", type |-> "satellite", relative_scale |-> 1,
       orbital_radius_au |-> 0, orbital_radius_earth |-> 0,
       orbital_period_days |-> 2, rotation_period_hours |-> 0, parent |-> "mars"],
      [id |-> "janus", type |-> "satellite", relative_scale |-> 1,
       orbital_radius_au |-> 0, orbital_radius_earth |-> 1,
       orbital_period_days |-> 4, rotation_period_hours |-> 1, parent |-> "epimetheus"],
      [id |-> "epimetheus", type |-> "satellite", relative_scale |-> 1,
       orbital_radius_au |-> 0, orbital_radius_earth |-> 2,
       orbital_period_days |-> 4, rotation_period_hours |-> 2, parent |-> "janus"] }

\* rotation.y is counted in 1/RotDen of (2*PI/3600): every rotation period
\* of the data divides RotDen.
RECURSIVE Product(_)
Product(S) == IF S = {} THEN 1
              ELSE LET x == CHOOSE y \in S : TRUE IN x * Product(S \ {x})
RotDen == Product({d.rotation_period_hours : d \in Descriptors})

VARIABLES
    phase,        \* "loading" (SolarSystemApp.init awaits) or "running"
    panelModule,  \* which info panel code is built: "ui" or "planetInfo"
    replay,       \* PlanetSystem.planets of a second, independent run (SpecReplay)
    planets,      \* PlanetSystem.planets: the meshes, in creation order
    timeSpeed,    \* PlanetSystem.timeSpeed
    isPaused,     \* PlanetSystem.isPaused
    isFocusing,   \* Controls.isFocusing
    cameraPos,    \* camera.position, in 1/CoordScale
    target,       \* controls.target, in 1/CoordScale
    viewFinite,   \* FALSE once camera.position and controls.target are NaN or infinite
    panelVisible, \* infoPanel.style.display = 'block'
    currentPlanet,\* the object the info panel holds, or NoObject
    btnText,      \* the text of #play-pause-btn
    rafQueue,     \* callbacks requested for the next frame, in request order
    running,      \* callbacks of the frame in progress that have not run yet
    clock,        \* timestamp of the latest frame (ms)
    frameLog      \* the steps run so far in the frame in progress or just ended

vars == <<phase, panelModule, replay, planets, timeSpeed, isPaused, isFocusing, cameraPos,
          target, viewFinite, panelVisible, currentPlanet, btnText, rafQueue,
          running, clock, frameLog>>

\* ------------------------------------------------------ PlanetSystem
\* createPlanet: the mesh and its userData; angle is Math.random() * 2 * PI.
NewPlanet(d, angle) ==
    LET isStar == d.type = "star"
        isSatellite == d.type = "satellite"
        orbitalRadius == IF isSatellite
                         THEN (IF d.orbital_radius_earth # 0 THEN d.orbital_radius_earth
                                                            ELSE DefaultSatelliteRadius)
                         ELSE d.orbital_radius_au * AuScale
    IN [id |-> d.id, isStar |-> isStar, isSatellite |-> isSatellite,
        parent |-> d.parent,
        orbitalRadius |-> orbitalRadius,
        orbitalPeriod |-> d.orbital_period_days,
        rotationPeriod |-> d.rotation_period_hours,
        currentAngle |-> angle,
        radius |-> d.relative_scale,
        rotationY |-> 0,
        position |-> IF ~isStar /\ ~isSatellite
                     THEN Vec(orbitalRadius * Cos(angle), 0, orbitalRadius * Sin(angle))
                     ELSE ZeroVec,
        angleFinite |-> TRUE, rotationFinite |-> TRUE, positionFinite |-> TRUE]

\* getPlanetById: the index of the first mesh with that id, 0 when none.
GetPlanetById(ps, id) ==
    IF \E i \in 1..Len(ps) : ps[i].id = id
    THEN CHOOSE i \in 1..Len(ps) : ps[i].id = id /\ \A j \in 1..(i - 1) : ps[j].id # id
    ELSE 0

\* (2 * PI / (rotationPeriod * 3600)) * deltaTime * timeSpeed, in 1/RotDen units.
RotationStep(p, deltaTime, speed) == (RotDen \div p.rotationPeriod) * deltaTime * speed

\* The angle step without the time speed factor.
AngleStepNoSpeed(p, deltaTime, speed) == (Rev * deltaTime) \div p.orbitalPeriod

\* angularVelocity * deltaTime * timeSpeed * 86400, in quarter turns.
AngleStep(p, deltaTime, speed) == (Rev * deltaTime * speed) \div p.orbitalPeriod

\* With a zero period 2 * PI / (period * k) is Infinity and the increment is
\* Infinity or NaN: the field it is added to stops being a finite number (its
\* Finite flag turns FALSE and the model holds 0 in its place), and so does a
\* position computed from such an angle or from such a parent position.

\* planet.rotation.y += (2 * PI / (rotationPeriod * 3600)) * deltaTime * timeSpeed
Rotated(p, deltaTime, speed) ==
    LET rotOk == p.rotationFinite /\ p.rotationPeriod # 0
    IN [p EXCEPT !.rotationY = IF rotOk THEN @ + RotationStep(p, deltaTime, speed) ELSE 0,
                 !.rotationFinite = rotOk]

\* The callback from "Rotate planet on its axis" on: what it does to a mesh
\* that is not a star.
OrbitOne(ps, i, deltaTime, speed) ==
    LET p == ps[i]
        rotated == Rotated(p, deltaTime, speed)
        angOk == p.angleFinite /\ p.orbitalPeriod # 0
        a == IF angOk THEN p.currentAngle + AngleStep(p, deltaTime, speed) ELSE 0
    IN IF p.isSatellite /\ p.parent # "null"
       THEN LET pi == GetPlanetById(ps, p.parent)
            IN IF pi # 0
               THEN LET posOk == angOk /\ ps[pi].positionFinite
                    IN [rotated EXCEPT
                          !.currentAngle = a,
                          !.angleFinite = angOk,
                          !.position = IF posOk
                                       THEN Vec(ps[pi].position[1] + p.orbitalRadius * Cos(a),
                                                ps[pi].position[2],
                                                ps[pi].position[3] + p.orbitalRadius * Sin(a))
                                       ELSE ZeroVec,
                          !.positionFinite = posOk]
               ELSE rotated
       ELSE [rotated EXCEPT
               !.currentAngle = a,
               !.angleFinite = angOk,
               !.position = IF angOk /\ p.positionFinite
                            THEN Vec(p.orbitalRadius * Cos(a), p.position[2],
                                     p.orbitalRadius * Sin(a))
                            ELSE ZeroVec,
               !.positionFinite = angOk /\ p.positionFinite]

\* The callback without the star's early return.
UpdateOneNoStar(ps, i, deltaTime, speed) == OrbitOne(ps, i, deltaTime, speed)

\* The body of the forEach callback applied to mesh i of ps; ps holds the
\* meshes before i as already updated in this call.
UpdateOne(ps, i, deltaTime, speed) ==
    IF ps[i].isStar THEN Rotated(ps[i], deltaTime, speed)
    ELSE OrbitOne(ps, i, deltaTime, speed)

RECURSIVE ForEachFrom(_, _, _, _)
ForEachFrom(ps, i, deltaTime, speed) ==
    IF i > Len(ps) THEN ps
    ELSE ForEachFrom([ps EXCEPT ![i] = UpdateOne(ps, i, deltaTime, speed)],
                     i + 1, deltaTime, speed)

\* updatePositions without its isPaused check.
UpdatePositionsNoPause(ps, paused, deltaTime, speed) == ForEachFrom(ps, 1, deltaTime, speed)

\* updatePositions(deltaTime)
UpdatePositions(ps, paused, deltaTime, speed) ==
    IF paused THEN ps ELSE ForEachFrom(ps, 1, deltaTime, speed)

\* ---------------------------------------------------------- Controls
\* An object a raycast can return: a mesh of planets, or the label sprite that
\* createLabel adds as a child of mesh idx (intersectObjects descends into
\* children; a sprite has no geometry.parameters and an empty userData).
NoObject == [kind |-> "none", idx |-> 0]
Mesh(i) == [kind |-> "mesh", idx |-> i]
Label(i) == [kind |-> "label", idx |-> i]

\* elapsed / durationMs without Math.min(..., 1).
ProgressUnclamped(elapsed, durationMs) ==
    IF durationMs = 0
    THEN IF elapsed > 0 THEN [kind |-> "num", n |-> 1, d |-> 1]
         ELSE IF elapsed = 0 THEN [kind |-> "nan", n |-> 0, d |-> 1]
         ELSE [kind |-> "neginf", n |-> 0, d |-> 1]
    ELSE LET e == IF durationMs < 0 THEN -elapsed ELSE elapsed
             m == Abs(durationMs)
             g == GCD(Abs(e), m)
         IN [kind |-> "num", n |-> e \div g, d |-> m \div g]

\* Math.min(elapsed / durationMs, 1) as a reduced fraction n/d, or NaN, or
\* -Infinity (division by a zero duration).
Progress(elapsed, durationMs) ==
    IF durationMs = 0
    THEN IF elapsed > 0 THEN [kind |-> "num", n |-> 1, d |-> 1]
         ELSE IF elapsed = 0 THEN [kind |-> "nan", n |-> 0, d |-> 1]
         ELSE [kind |-> "neginf", n |-> 0, d |-> 1]
    ELSE LET e == IF durationMs < 0 THEN -elapsed ELSE elapsed
             m == Abs(durationMs)
             g == GCD(Abs(e), m)
         IN IF e >= m THEN [kind |-> "num", n |-> 1, d |-> 1]
            ELSE [kind |-> "num", n |-> e \div g, d |-> m \div g]

\* An easing whose first branch is 4 * t * t.
EasedSquare(t) ==
    IF t.kind # "num" THEN t
    ELSE IF 2 * t.n < t.d
    THEN [kind |-> "num", n |-> 4 * t.n * t.n, d |-> t.d * t.d]
    ELSE LET u == 2 * t.d - 2 * t.n
         IN [kind |-> "num", n |-> 2 * t.d * t.d * t.d - u * u * u,
             d |-> 2 * t.d * t.d * t.d]

\* t < 0.5 ? 4 * t * t * t : 1 - Math.pow(-2 * t + 2, 3) / 2
Eased(t) ==
    IF t.kind # "num" THEN t
    ELSE IF 2 * t.n < t.d
    THEN [kind |-> "num", n |-> 4 * t.n * t.n * t.n, d |-> t.d * t.d * t.d]
    ELSE LET u == 2 * t.d - 2 * t.n
         IN [kind |-> "num", n |-> 2 * t.d * t.d * t.d - u * u * u,
             d |-> 2 * t.d * t.d * t.d]

\* t < 1 (false for NaN)
Unfinished(t) ==
    IF t.kind = "num" THEN t.n < t.d ELSE t.kind = "neginf"

\* Vector3.lerpVectors(v1, v2, alpha): v1 + (v2 - v1) * alpha
LerpVectors(v1, v2, alpha) ==
    [c \in 1..3 |-> v1[c] + ((v2[c] - v1[c]) * alpha.n) \div alpha.d]

AppCallback ==
    [fn |-> "app", planet |-> "null", startCameraPos |-> ZeroVec, targetCameraPos |-> ZeroVec,
     startTarget |-> ZeroVec, targetFocus |-> ZeroVec, startFinite |-> TRUE,
     startTime |-> 0, durationMs |-> 0]

\* A callback list that runs the latest request first.
RequestAnimationFrameFirst(queue, callback) == <<callback>> \o queue

\* requestAnimationFrame(callback)
RequestAnimationFrame(queue, callback) == Append(queue, callback)

\* A closure that takes the origin for planet.position.
FocusClosureOrigin(p, durationMs, now) ==
    LET scaled == p.radius * RadiusFactor
        distance == IF scaled > MinDistance THEN scaled ELSE MinDistance
        angle == p.currentAngle
        cameraOffset == Vec(-Cos(angle) * distance * CoordScale,
                            (distance * CoordScale) \div 2,
                            -Sin(angle) * distance * CoordScale)
    IN [fn |-> "focusAnimate", planet |-> p.id,
        startCameraPos |-> cameraPos, targetCameraPos |-> cameraOffset,
        startTarget |-> target, targetFocus |-> ZeroVec,
        startFinite |-> viewFinite /\ p.positionFinite,
        startTime |-> now, durationMs |-> durationMs]

\* The closure focusOnPlanet builds for mesh p at performance.now() = now
\* (planet: the id of the mesh in its scope).
\* startFinite: the vectors it captured are finite (a NaN currentAngle reads as
\* 0 through || 0, a NaN position stays NaN in targetFocus and targetCameraPos).
FocusClosure(p, durationMs, now) ==
    LET targetFocus == Scaled(p.position, CoordScale)
        scaled == p.radius * RadiusFactor
        distance == IF scaled > MinDistance THEN scaled ELSE MinDistance
        angle == p.currentAngle
        cameraOffset == Vec(-Cos(angle) * distance * CoordScale,
                            (distance * CoordScale) \div 2,
                            -Sin(angle) * distance * CoordScale)
    IN [fn |-> "focusAnimate", planet |-> p.id,
        startCameraPos |-> cameraPos, targetCameraPos |-> VAdd(targetFocus, cameraOffset),
        startTarget |-> target, targetFocus |-> targetFocus,
        startFinite |-> viewFinite /\ p.positionFinite,
        startTime |-> now, durationMs |-> durationMs]

\* The closure resetCamera builds.
ResetClosure(durationMs, now) ==
    [fn |-> "resetAnimate", planet |-> "null",
     startCameraPos |-> cameraPos,
     targetCameraPos |-> Scaled(Vec(0, 50, 100), CoordScale),
     startTarget |-> target, targetFocus |-> ZeroVec, startFinite |-> viewFinite,
     startTime |-> now, durationMs |-> durationMs]

\* focusOnPlanet without its isFocusing check.
NeverDebounced(focusing) == FALSE

\* if (this.isFocusing) return;
Debounced(focusing) == focusing

\* focusOnPlanet that restarts: a request during an animation replaces it.
FocusOnPlanetRestart(obj, durationMs, now, q) ==
    IF obj.kind = "label" THEN [isFocusing |-> TRUE, rafQueue |-> q, result |-> "TypeError"]
    ELSE [isFocusing |-> TRUE,
          rafQueue |-> Append(SelectSeq(q, LAMBDA c : c.fn = "app"),
                              FocusClosure(planets[obj.idx], durationMs, now)),
          result |-> "undefined"]

\* focusOnPlanet(obj, durationMs): the values it leaves in isFocusing and in
\* the callback queue q, and how the call ends: result is the value it
\* returns ("undefined" for return; and for running off its end), or the
\* exception it throws.  With a label sprite it sets isFocusing and then
\* throws at planet.geometry.parameters.radius.
FocusOnPlanet(obj, durationMs, now, q) ==
    IF Debounced(isFocusing)
    THEN [isFocusing |-> isFocusing, rafQueue |-> q, result |-> "undefined"]
    ELSE IF obj.kind = "label"
    THEN [isFocusing |-> TRUE, rafQueue |-> q, result |-> "TypeError"]
    ELSE [isFocusing |-> TRUE,
          rafQueue |-> RequestAnimationFrame(q, FocusClosure(planets[obj.idx], durationMs, now)),
          result |-> "undefined"]

\* resetCamera(durationMs)
ResetCamera(durationMs, now, q) ==
    IF Debounced(isFocusing)
    THEN [isFocusing |-> isFocusing, rafQueue |-> q, result |-> "undefined"]
    ELSE [isFocusing |-> TRUE,
          rafQueue |-> RequestAnimationFrame(q, ResetClosure(durationMs, now)),
          result |-> "undefined"]

\* ------------------------------------------------- UI and PlanetInfo
\* showPlanetInfo / PlanetInfo.show fail on an object without orbital userData
\* where the panel markup calls userData.orbitalPeriod.toFixed: in ui.js and in
\* the one-page PlanetInfo, after the pause and before the panel is displayed.
\* The paged PlanetInfo renders its first page without such a call.
ShowThrows(obj) == panelModule = "ui" /\ obj.kind = "label"

\* A show that pauses and leaves the play/pause button as it is.
ShowPlanetInfoNoButton(obj) ==
    /\ currentPlanet' = obj
    /\ isPaused' = TRUE
    /\ btnText' = btnText
    /\ panelVisible' = IF ShowThrows(obj) THEN panelVisible ELSE TRUE

\* The part of a handler that shows the info panel for obj.
ShowPlanetInfo(obj) ==
    /\ currentPlanet' = obj
    /\ isPaused' = TRUE
    /\ btnText' = "Play"
    /\ panelVisible' = IF ShowThrows(obj) THEN panelVisible ELSE TRUE

\* hideInfo / PlanetInfo.hide with the onResume callback.
HideInfo ==
    /\ panelVisible' = FALSE
    /\ currentPlanet' = NoObject
    /\ isPaused' = FALSE
    /\ btnText' = "Pause"

\* ---------------------------------------------------- SolarSystemApp
Idle == phase = "running" /\ running = <<>>

\* performance.now() as an input handler reads it.
Now(late) == clock + late * FrameMs

\* The model takes a focus or reset request only while the end of the
\* animation it may start lies within the clock's range.
InRange(now, durationMs) == now + Abs(durationMs) <= MaxClock

Init ==
    /\ phase = "loading"
    /\ panelModule \in {"ui", "planetInfo"}
    /\ planets = <<>>
    /\ replay = <<>>
    /\ timeSpeed = 1
    /\ isPaused = FALSE
    /\ isFocusing = FALSE
    /\ cameraPos = Scaled(Vec(0, 50, 100), CoordScale)
    /\ target = ZeroVec
    /\ viewFinite = TRUE
    /\ panelVisible = FALSE
    /\ currentPlanet = NoObject
    /\ btnText = "Pause"
    /\ rafQueue = <<>>
    /\ running = <<>>
    /\ clock = 0
    /\ frameLog = <<>>

\* init: one pass of the loop over planetsData.
CreatePlanet(d, angle) ==
    /\ phase = "loading"
    /\ Len(planets) < MaxBodies
    /\ \A i \in 1..Len(planets) : planets[i].id # d.id
    /\ planets' = Append(planets, NewPlanet(d, angle))
    /\ UNCHANGED <<phase, panelModule, replay, timeSpeed, isPaused, isFocusing, cameraPos,
                   target, viewFinite, panelVisible, currentPlanet, btnText,
                   rafQueue, running, clock, frameLog>>

\* The steps of SolarSystemApp.animate after its requestAnimationFrame.
AppSteps == <<"updatePositions", "controls.update", "render">>

\* init, after the loop: Controls, UI, listeners, and the first, direct call of
\* animate() (THREE.Clock.getDelta() starts the clock and returns 0).
StartApp ==
    /\ phase = "loading"
    /\ phase' = "running"
    /\ rafQueue' = RequestAnimationFrame(rafQueue, AppCallback)
    /\ planets' = UpdatePositions(planets, isPaused, 0, timeSpeed)
    /\ frameLog' = AppSteps
    /\ UNCHANGED <<panelModule, replay, timeSpeed, isPaused, isFocusing, cameraPos, target,
                   viewFinite, panelVisible, currentPlanet, btnText, running, clock>>

\* The browser starts a frame: the callbacks requested so far will run, in
\* request order, with the frame's timestamp.
BeginFrame(k) ==
    /\ Idle
    /\ clock + k * FrameMs <= MaxClock
    /\ clock' = clock + k * FrameMs
    /\ running' = rafQueue
    /\ rafQueue' = <<>>
    /\ frameLog' = <<>>
    /\ UNCHANGED <<phase, panelModule, replay, planets, timeSpeed, isPaused, isFocusing,
                   cameraPos, target, viewFinite, panelVisible, currentPlanet, btnText>>

\* SolarSystemApp.animate as a frame callback.
AppAnimate(deltaTime) ==
    /\ running # <<>>
    /\ Head(running).fn = "app"
    /\ running' = Tail(running)
    /\ rafQueue' = RequestAnimationFrame(rafQueue, AppCallback)
    /\ planets' = UpdatePositions(planets, isPaused, deltaTime, timeSpeed)
    /\ frameLog' = frameLog \o AppSteps
    /\ UNCHANGED <<phase, panelModule, replay, timeSpeed, isPaused, isFocusing, cameraPos,
                   target, viewFinite, panelVisible, currentPlanet, btnText, clock>>

\* The animate closure of focusOnPlanet or resetCamera as a frame callback.
Animate ==
    /\ running # <<>>
    /\ Head(running).fn # "app"
    /\ LET cb == Head(running)
           t == Progress(clock - cb.startTime, cb.durationMs)
           eased == Eased(t)
           finite == cb.startFinite /\ eased.kind = "num"
       IN /\ viewFinite' = finite
          /\ cameraPos' = IF finite
                          THEN LerpVectors(cb.startCameraPos, cb.targetCameraPos, eased)
                          ELSE ZeroVec
          /\ target' = IF finite
                       THEN LerpVectors(cb.startTarget, cb.targetFocus, eased)
                       ELSE ZeroVec
          /\ IF Unfinished(t)
             THEN /\ rafQueue' = RequestAnimationFrame(rafQueue, cb)
                  /\ isFocusing' = isFocusing
             ELSE /\ rafQueue' = rafQueue
                  /\ isFocusing' = FALSE
    /\ running' = Tail(running)
    /\ frameLog' = Append(frameLog, "animate")
    /\ UNCHANGED <<phase, panelModule, replay, planets, timeSpeed, isPaused, panelVisible,
                   currentPlanet, btnText, clock>>

\* The objects a raycast from the pointer can hit first.
Hits == {Mesh(i) : i \in 1..Len(planets)} \cup {Label(i) : i \in 1..Len(planets)}

\* The body of onMouseClick and onTouchStart when the ray hits obj.
Select(obj, late) ==
    /\ Idle
    /\ InRange(Now(late), DurationMs)
    /\ ShowPlanetInfo(obj)
    /\ LET r == IF ShowThrows(obj)
                THEN [isFocusing |-> isFocusing, rafQueue |-> rafQueue, result |-> "TypeError"]
                ELSE FocusOnPlanet(obj, DurationMs, Now(late), rafQueue)
       IN /\ isFocusing' = r.isFocusing
          /\ rafQueue' = r.rafQueue
    /\ UNCHANGED <<phase, panelModule, replay, planets, timeSpeed, cameraPos, target,
                   viewFinite, running, clock, frameLog>>

OnMouseClick(obj, late) == Select(obj, late)

OnTouchStart(obj, late) == Select(obj, late)

\* The ids the keys 1-9 stand for, as far as the data has them.
DigitIds == {"earth", "moon"}

\* keydown, Digit1..Digit9
KeyDigit(id, late) ==
    /\ Idle
    /\ InRange(Now(late), DurationMs)
    /\ LET i == GetPlanetById(planets, id)
       IN IF i # 0
          THEN /\ ShowPlanetInfo(Mesh(i))
               /\ LET r == FocusOnPlanet(Mesh(i), DurationMs, Now(late), rafQueue)
                  IN /\ isFocusing' = r.isFocusing
                     /\ rafQueue' = r.rafQueue
          ELSE UNCHANGED <<currentPlanet, isPaused, btnText, panelVisible, isFocusing,
                           rafQueue>>
    /\ UNCHANGED <<phase, panelModule, replay, planets, timeSpeed, cameraPos, target,
                   viewFinite, running, clock, frameLog>>

\* togglePlayPause: the play/pause button and the Space key.
TogglePlayPause ==
    /\ Idle
    /\ isPaused' = ~isPaused
    /\ btnText' = IF isPaused' THEN "Play" ELSE "Pause"
    /\ UNCHANGED <<phase, panelModule, replay, planets, timeSpeed, isFocusing, cameraPos,
                   target, viewFinite, panelVisible, currentPlanet, rafQueue, running,
                   clock, frameLog>>

\* The Escape key, and the close button of a visible panel.
CloseInfo ==
    /\ Idle
    /\ HideInfo
    /\ UNCHANGED <<phase, panelModule, replay, planets, timeSpeed, isFocusing, cameraPos,
                   target, viewFinite, rafQueue, running, clock, frameLog>>

\* resetView: the Reset View button.
ResetView(late) ==
    /\ Idle
    /\ InRange(Now(late), DurationMs)
    /\ LET r == ResetCamera(DurationMs, Now(late), rafQueue)
       IN /\ isFocusing' = r.isFocusing
          /\ rafQueue' = r.rafQueue
    /\ HideInfo
    /\ UNCHANGED <<phase, panelModule, replay, planets, timeSpeed, cameraPos, target,
                   viewFinite, running, clock, frameLog>>

\* The speed slider: setTimeSpeed(speed).
SetTimeSpeed(speed) ==
    /\ Idle
    /\ timeSpeed' = speed
    /\ UNCHANGED <<phase, panelModule, replay, planets, isPaused, isFocusing, cameraPos,
                   target, viewFinite, panelVisible, currentPlanet, btnText, rafQueue,
                   running, clock, frameLog>>

Next ==
    \/ \E d \in Descriptors, a \in 0..MaxInitAngle : CreatePlanet(d, a)
    \/ StartApp
    \/ \E k \in 1..MaxSkip : BeginFrame(k)
    \/ \E dt \in 0..MaxDelta : AppAnimate(dt)
    \/ Animate
    \/ \E obj \in Hits, late \in 0..MaxLate : OnMouseClick(obj, late)
    \/ \E obj \in Hits, late \in 0..MaxLate : OnTouchStart(obj, late)
    \/ \E id \in DigitIds, late \in 0..MaxLate : KeyDigit(id, late)
    \/ TogglePlayPause
    \/ CloseInfo
    \/ \E late \in 0..MaxLate : ResetView(late)
    \/ \E s \in 0..MaxSpeed : SetTimeSpeed(s)

Spec == Init /\ [][Next]_vars

\* Controls used directly, with any duration: the callers of this repository
\* all pass DurationMs, the methods take whatever they are given.
ApiDurations == {DurationMs, 0, -DurationMs}

ApiFocusOnPlanet(i, durationMs, late) ==
    /\ Idle
    /\ i \in 1..Len(planets)
    /\ InRange(Now(late), durationMs)
    /\ LET r == FocusOnPlanet(Mesh(i), durationMs, Now(late), rafQueue)
       IN /\ isFocusing' = r.isFocusing
          /\ rafQueue' = r.rafQueue
    /\ UNCHANGED <<phase, panelModule, replay, planets, timeSpeed, isPaused, cameraPos, target,
                   viewFinite, panelVisible, currentPlanet, btnText, running, clock,
                   frameLog>>

ApiResetCamera(durationMs, late) ==
    /\ Idle
    /\ InRange(Now(late), durationMs)
    /\ LET r == ResetCamera(durationMs, Now(late), rafQueue)
       IN /\ isFocusing' = r.isFocusing
          /\ rafQueue' = r.rafQueue
    /\ UNCHANGED <<phase, panelModule, replay, planets, timeSpeed, isPaused, cameraPos, target,
                   viewFinite, panelVisible, currentPlanet, btnText, running, clock,
                   frameLog>>

NextApi ==
    \/ \E d \in Descriptors, a \in 0..MaxInitAngle : CreatePlanet(d, a)
    \/ StartApp
    \/ \E k \in 1..MaxSkip : BeginFrame(k)
    \/ \E dt \in 0..MaxDelta : AppAnimate(dt)
    \/ Animate
    \/ \E i \in 1..Cardinality(Descriptors), d \in ApiDurations, late \in 0..MaxLate :
          ApiFocusOnPlanet(i, d, late)
    \/ \E d \in ApiDurations, late \in 0..MaxLate : ApiResetCamera(d, late)

SpecApi == Init /\ [][NextApi]_vars

\* The orbit loop over any data file: init loads up to MaxBodies descriptors,
\* sound or faulty, in any order, and the frames tick them; the pause button
\* and the speed slider are the only inputs.
NextData ==
    \/ \E d \in Descriptors \cup FaultyDescriptors, a \in 0..MaxInitAngle : CreatePlanet(d, a)
    \/ StartApp
    \/ \E k \in 1..MaxSkip : BeginFrame(k)
    \/ \E dt \in 0..MaxDelta : AppAnimate(dt)
    \/ TogglePlayPause
    \/ \E s \in 0..MaxSpeed : SetTimeSpeed(s)

SpecData == Init /\ [][NextData]_vars

\* Two independent runs fed the same input: the same descriptors in the same
\* order, then the same ticks.  createPlanet takes the descriptor and nothing
\* else, and draws currentAngle from Math.random() in each run.
ReplayCreatePlanet(d, angle, angle2) ==
    /\ phase = "loading"
    /\ Len(planets) < MaxBodies
    /\ \A i \in 1..Len(planets) : planets[i].id # d.id
    /\ planets' = Append(planets, NewPlanet(d, angle))
    /\ replay' = Append(replay, NewPlanet(d, angle2))
    /\ UNCHANGED <<phase, panelModule, timeSpeed, isPaused, isFocusing, cameraPos,
                   target, viewFinite, panelVisible, currentPlanet, btnText,
                   rafQueue, running, clock, frameLog>>

\* One tick (deltaTime, timeSpeed, paused) given to both runs: setTimeSpeed,
\* setPaused and updatePositions(deltaTime).
ReplayTick(deltaTime, speed, paused) ==
    /\ planets # <<>>
    /\ clock < MaxClock
    /\ clock' = clock + FrameMs
    /\ phase' = "running"
    /\ timeSpeed' = speed
    /\ isPaused' = paused
    /\ planets' = UpdatePositions(planets, paused, deltaTime, speed)
    /\ replay' = UpdatePositions(replay, paused, deltaTime, speed)
    /\ UNCHANGED <<panelModule, isFocusing, cameraPos, target, viewFinite,
                   panelVisible, currentPlanet, btnText, rafQueue, running, frameLog>>

\* The first run draws its angles as the application above does, the second
\* run draws any quarter turn.
NextReplay ==
    \/ \E d \in Descriptors, a \in 0..MaxInitAngle, a2 \in 0..(Rev - 1) :
          ReplayCreatePlanet(d, a, a2)
    \/ \E dt \in 0..MaxDelta, s \in 0..MaxSpeed, paused \in BOOLEAN : ReplayTick(dt, s, paused)

SpecReplay == Init /\ [][NextReplay]_vars

\* The easing on its own: one focus or reset closure is pending, with any of a
\* few captured start and end vectors, and frames come at any millisecond
\* from its start to past its end.  The vectors differ by multiples of
\* EaseUnit, which keeps every interpolated coordinate an integer.
EaseDuration == 2 * EaseHalf
EaseUnit == 2 * (2 * EaseDuration) * (2 * EaseDuration) * (2 * EaseDuration)
EaseOffsets == {Vec(EaseUnit, 0, -EaseUnit), Vec(-2 * EaseUnit, EaseUnit, 0)}

EaseClosures ==
    LET home == Scaled(Vec(0, 50, 100), CoordScale)
    IN { [fn |-> "focusAnimate", planet |-> "earth", startCameraPos |-> home,
          targetCameraPos |-> VAdd(home, v), startTarget |-> ZeroVec,
          targetFocus |-> v, startFinite |-> TRUE, startTime |-> 0, durationMs |-> d]
         : v \in EaseOffsets, d \in {EaseDuration, 2 * EaseDuration} }
       \cup
       { [fn |-> "resetAnimate", planet |-> "null", startCameraPos |-> VAdd(home, v),
          targetCameraPos |-> home, startTarget |-> v,
          targetFocus |-> ZeroVec, startFinite |-> TRUE, startTime |-> 0, durationMs |-> d]
         : v \in EaseOffsets, d \in {EaseDuration, 2 * EaseDuration} }

\* focusOnPlanet or resetCamera has just returned at performance.now() = 0.
InitEasing ==
    /\ phase = "running"
    /\ panelModule = "planetInfo"
    /\ planets = <<>>
    /\ replay = <<>>
    /\ timeSpeed = 1
    /\ isPaused = FALSE
    /\ isFocusing = TRUE
    /\ \E cb \in EaseClosures :
          /\ rafQueue = <<cb>>
          /\ cameraPos = cb.startCameraPos
          /\ target = cb.startTarget
    /\ viewFinite = TRUE
    /\ panelVisible = FALSE
    /\ currentPlanet = NoObject
    /\ btnText = "Pause"
    /\ running = <<>>
    /\ clock = 0
    /\ frameLog = <<>>

\* The browser starts a frame with timestamp time.
FrameAt(time) ==
    /\ running = <<>>
    /\ rafQueue # <<>>
    /\ time >= clock
    /\ clock' = time
    /\ running' = rafQueue
    /\ rafQueue' = <<>>
    /\ frameLog' = <<>>
    /\ UNCHANGED <<phase, panelModule, replay, planets, timeSpeed, isPaused, isFocusing,
                   cameraPos, target, viewFinite, panelVisible, currentPlanet, btnText>>

NextEasing ==
    \/ \E time \in 0..(2 * EaseDuration + 1) : FrameAt(time)
    \/ Animate

SpecEasing == InitEasing /\ [][NextEasing]_vars

\* ------------------------------------------------------------ properties
\* The focus and reset closures among the callbacks of q.
Animations(q) == SelectSeq(q, LAMBDA c : c.fn # "app")

\* Every focus or reset closure that is still to run, in this frame or a later one.
Pending == Animations(running) \o Animations(rafQueue)

\* x lies between a and b.
Between(x, a, b) == (a <= x /\ x <= b) \/ (b <= x /\ x <= a)

OnSegment(v, a, b) == \A c \in 1..3 : Between(v[c], a[c], b[c])

\* Mesh i is a satellite whose parent id getPlanetById resolves.
ResolvedSatellite(i) ==
    /\ planets[i].isSatellite
    /\ planets[i].parent # "null"
    /\ GetPlanetById(planets, planets[i].parent) # 0

\* Mesh i sits at its parent's position plus orbitalRadius * (cos, 0, sin)(currentAngle).
AtParentOffset(i) ==
    LET p == planets[i]
        q == planets[GetPlanetById(planets, p.parent)]
    IN p.position = Vec(q.position[1] + p.orbitalRadius * Cos(p.currentAngle),
                        q.position[2],
                        q.position[3] + p.orbitalRadius * Sin(p.currentAngle))

\* A step of one of the handlers that ask for a focus or reset animation.
FocusRequest ==
    \/ \E obj \in Hits, late \in 0..MaxLate : OnMouseClick(obj, late)
    \/ \E obj \in Hits, late \in 0..MaxLate : OnTouchStart(obj, late)
    \/ \E id \in DigitIds, late \in 0..MaxLate : KeyDigit(id, late)
    \/ \E late \in 0..MaxLate : ResetView(late)

\* C1 (pause invariance): no step taken while planetSystem.isPaused is true,
\* an updatePositions call with any deltaTime and timeSpeed included, changes
\* any body's currentAngle, rotation.y or position.
C1_PauseInvariance == [][isPaused => planets' = planets]_vars

\* C1 witness: updatePositions has just run inside a frame, paused, with a
\* non-zero time speed and bodies to move; an animation callback is still to run.
C1_Witness ==
    /\ isPaused
    /\ timeSpeed > 0
    /\ Len(planets) = Cardinality(Descriptors)
    /\ running # <<>>
    /\ frameLog = AppSteps

\* C2 (debounce): a click, touch, number-key or Reset View request made while
\* isFocusing is true leaves isFocusing true, adds no callback to the queue and
\* changes nothing the running animation captured (its closure in the queue),
\* nor the camera position or the controls target.
C2_Debounce ==
    [][(isFocusing /\ FocusRequest)
        => (isFocusing' /\ rafQueue' = rafQueue /\ UNCHANGED <<cameraPos, target>>)]_vars

\* C2 witness: a reset animation is running and the info panel is visible:
\* Reset View hides the panel, so a click or number key came after the reset began.
C2_Witness ==
    /\ isFocusing
    /\ Len(Pending) = 1
    /\ Pending[1].fn = "resetAnimate"
    /\ panelVisible

\* C3 (one animation at a time): in every state at most one focus or reset
\* closure is waiting to run, over the callbacks of the frame in progress and
\* those requested for the next frame together.
C3_OneAnimation == Len(Pending) <= 1

\* C3 witness: a focus animation is pending while the panel holds a label
\* sprite: the click on the label asked for a second focus during the animation.
C3_Witness ==
    /\ isFocusing
    /\ Len(Pending) = 1
    /\ Pending[1].fn = "focusAnimate"
    /\ currentPlanet.kind = "label"
    /\ panelVisible

\* The frame callback about to run is a closure with a positive duration and
\* the frame's timestamp has reached startTime + durationMs.
AnimationDue ==
    /\ running # <<>>
    /\ Head(running).fn # "app"
    /\ Head(running).durationMs > 0
    /\ clock >= Head(running).startTime + Head(running).durationMs

C5_Terminated == (Idle /\ clock = MaxClock) => ~isFocusing

\* C6 (satellite ordering): once the application runs, so after every
\* unpaused updatePositions call, each satellite whose parent is loaded sits at
\* the parent's position plus its orbital offset, whatever the order of the
\* planets list.
C6_SatelliteOrdering ==
    phase = "running" => \A i \in 1..Len(planets) : ResolvedSatellite(i) => AtParentOffset(i)

\* C7 (satellite position invariant): in every state, the states between
\* createPlanet and the first updatePositions call included, each satellite
\* whose parent is loaded sits at the parent's position plus its orbital offset.
C7_SatelliteInvariant ==
    \A i \in 1..Len(planets) : ResolvedSatellite(i) => AtParentOffset(i)

\* The progress t of closure cb at a frame with timestamp time lies in [0, 1].
ProgressInUnit(cb, time) ==
    LET t == Progress(time - cb.startTime, cb.durationMs)
    IN t.kind = "num" /\ 0 <= t.n /\ t.n <= t.d

\* C8 (progress clamp): at every animation frame the progress lies in [0, 1],
\* and while an animation is pending the camera position and the controls
\* target lie on the segments between their captured start and end values.
C8_ProgressClamp ==
    /\ (running # <<>> /\ Head(running).fn # "app") => ProgressInUnit(Head(running), clock)
    /\ \A j \in 1..Len(Pending) :
          /\ OnSegment(cameraPos, Pending[j].startCameraPos, Pending[j].targetCameraPos)
          /\ OnSegment(target, Pending[j].startTarget, Pending[j].targetFocus)

\* C9 (degenerate duration): an animation step of a closure whose duration is
\* zero or negative completes the animation: the camera position and the
\* controls target are at their end values and isFocusing is false.
C9_Instantaneous ==
    [][(running # <<>> /\ Head(running).fn # "app" /\ Head(running).durationMs <= 0
        /\ Animate)
        => /\ viewFinite'
           /\ cameraPos' = Head(running).targetCameraPos
           /\ target' = Head(running).targetFocus
           /\ ~isFocusing']_vars

\* First position of step x in log, 0 when absent.
StepIndex(log, x) ==
    IF \E i \in 1..Len(log) : log[i] = x
    THEN CHOOSE i \in 1..Len(log) : log[i] = x /\ \A j \in 1..(i - 1) : log[j] # x
    ELSE 0

FiniteBody(p) == p.angleFinite /\ p.rotationFinite /\ p.positionFinite

\* C11 (zero period rejected at load): the frame loop never runs with a body
\* whose orbital or rotation period is zero or negative in the list, and in no
\* state is a body's currentAngle, rotation.y or position NaN or infinite.
C11_ZeroPeriodRejected ==
    /\ phase = "running"
       => \A i \in 1..Len(planets) :
             planets[i].orbitalPeriod > 0 /\ planets[i].rotationPeriod > 0
    /\ \A i \in 1..Len(planets) : FiniteBody(planets[i])

\* Following parent ids from mesh i, as updatePositions resolves them, ends at
\* a body that is not a satellite within n steps.
RECURSIVE ParentChainEnds(_, _, _)
ParentChainEnds(ps, i, n) ==
    IF ~(ps[i].isSatellite /\ ps[i].parent # "null") THEN TRUE
    ELSE IF n = 0 THEN FALSE
    ELSE LET pi == GetPlanetById(ps, ps[i].parent)
         IN pi # 0 /\ ParentChainEnds(ps, pi, n - 1)

\* C12 (unknown or cyclic parent detected at load): the frame loop never runs
\* with a satellite whose parent id matches no loaded body, nor with parent
\* references that form a cycle.
C12_ParentsChecked ==
    phase = "running" => \A i \in 1..Len(planets) : ParentChainEnds(planets, i, Len(planets))

\* Mesh i of ps is a satellite whose parent id getPlanetById does not resolve.
Unresolved(ps, i) ==
    /\ ps[i].isSatellite
    /\ ps[i].parent # "null"
    /\ GetPlanetById(ps, ps[i].parent) = 0

\* C13 (unresolved parent surfaced): an unpaused updatePositions call of a
\* frame that reaches a satellite with an unresolvable parent id fails, so that
\* the later steps of the frame do not run; it does not go on to the render
\* with the satellite left where it was.
C13_UnresolvedSurfaced ==
    [][((\E dt \in 0..MaxDelta : AppAnimate(dt)) /\ ~isPaused)
        => \A i \in 1..Len(planets) :
              Unresolved(planets, i)
              => ~(planets'[i].position = planets[i].position
                   /\ frameLog' = frameLog \o AppSteps)]_vars

\* C14 (determinism): two runs given the same descriptors and the same ticks
\* hold the same currentAngle, rotation.y and position for every body, after
\* the load and after every tick.
C14_Determinism == replay = planets

\* What a focus request on obj, and a reset request, made in the current
\* state hand back to their caller.
FocusResult(obj) == FocusOnPlanet(obj, DurationMs, clock, rafQueue).result
ResetResult == ResetCamera(DurationMs, clock, rafQueue).result

\* C15 (result signal): across a step that starts an animation, the value a
\* focus request on a body and a reset request return before the step, where
\* they are accepted, differs from the value they return after it, where they
\* are dropped; the dropped request raises no exception.
C15_ResultSignal ==
    [][(~isFocusing /\ isFocusing' /\ Pending' # <<>>)
        => /\ ResetResult # ResetResult'
           /\ ResetResult' # "TypeError"
           /\ \A i \in 1..Len(planets) :
                 /\ FocusResult(Mesh(i)) # FocusResult(Mesh(i))'
                 /\ FocusResult(Mesh(i))' # "TypeError"]_vars

\* Mesh i moves on an orbit in updatePositions: a planet, or a satellite whose
\* parent id resolves.
Orbiting(i) ==
    /\ ~planets[i].isStar
    /\ (planets[i].isSatellite /\ planets[i].parent # "null") => ResolvedSatellite(i)

\* C16 (rate law): the updatePositions call of an unpaused frame adds
\* Rev * deltaTime * timeSpeed / orbitalPeriod to the currentAngle of every
\* planet and every resolved satellite: increments add up, so ticks whose
\* deltaTime values sum to orbitalPeriod at timeSpeed 1 make one revolution
\* however the time is split.
C16_RateLaw ==
    [][\A dt \in 0..MaxDelta :
          (AppAnimate(dt) /\ ~isPaused)
          => \A i \in 1..Len(planets) :
                Orbiting(i)
                => planets'[i].currentAngle * planets[i].orbitalPeriod
                   = planets[i].currentAngle * planets[i].orbitalPeriod
                     + Rev * dt * timeSpeed]_vars

\* C16 witness: the moon, listed after the earth, has made at least one
\* revolution in unpaused frames at time speed 1, and the last frame has
\* just updated the positions.
C16_Witness ==
    /\ \E i \in 1..Len(planets) :
          /\ planets[i].id = "moon"
          /\ ResolvedSatellite(i)
          /\ planets[i].currentAngle >= MaxInitAngle + Rev
    /\ timeSpeed = 1
    /\ ~isPaused
    /\ frameLog = AppSteps

\* The progress t of the pending closure at the timestamp of the latest frame.
PendingProgress == Progress(clock - Pending[1].startTime, Pending[1].durationMs)

Cube(x) == x * x * x

\* C17 (easing): at every frame of a focus or a reset animation, with t in
\* [0, 1], the eased value is 4t^3 below one half and 1 - (2 - 2t)^3 / 2 from
\* one half on; it is 0 at t = 0, 1/2 at t = 1/2, where 4t^3 is 1/2 as well,
\* and 1 at t = 1; and a later frame never has a smaller eased value.
C17_Easing ==
    [][Pending # <<>>
       => LET t == PendingProgress
              e == Eased(t)
          IN /\ e.kind = "num"
             /\ 0 <= t.n /\ t.n <= t.d
             /\ (2 * t.n < t.d) => e.n * Cube(t.d) = 4 * Cube(t.n) * e.d
             /\ (2 * t.n >= t.d)
                => 2 * e.n * Cube(t.d) = (2 * Cube(t.d) - Cube(2 * t.d - 2 * t.n)) * e.d
             /\ (t.n = 0) => e.n = 0
             /\ (2 * t.n = t.d) => (2 * e.n = e.d /\ 2 * 4 * Cube(t.n) = Cube(t.d))
             /\ (t.n = t.d) => e.n = e.d
             /\ (Pending' # <<>> /\ clock' >= clock)
                => e.n * Eased(PendingProgress').d <= Eased(PendingProgress').n * e.d]_vars

\* C17 witness: the animation step of a frame at half of the duration has
\* put the camera and the target half way between their start and end values.
C17_Witness ==
    /\ Pending # <<>>
    /\ frameLog = <<"animate">>
    /\ 2 * (clock - Pending[1].startTime) = Pending[1].durationMs
    /\ Scaled(cameraPos, 2) = VAdd(Pending[1].startCameraPos, Pending[1].targetCameraPos)
    /\ Scaled(target, 2) = VAdd(Pending[1].startTarget, Pending[1].targetFocus)
    /\ cameraPos # Pending[1].startCameraPos

\* C18 (star frame condition): no step, an updatePositions call with any
\* deltaTime and timeSpeed included, changes anything of a star but its
\* rotation.y: its position is the origin before and after, its currentAngle
\* keeps its value.
C18_StarFrame ==
    [][\A i \in 1..Len(planets) :
          planets[i].isStar
          => /\ planets[i].position = ZeroVec
             /\ planets'[i] = [planets[i] EXCEPT
                                  !.rotationY = planets'[i].rotationY,
                                  !.rotationFinite = planets'[i].rotationFinite]]_vars

\* C18 witness: an unpaused frame has just turned the star, which is listed
\* with the planet and the satellite.
C18_Witness ==
    /\ Len(planets) = Cardinality(Descriptors)
    /\ \E i \in 1..Len(planets) : planets[i].isStar /\ planets[i].rotationY > 0
    /\ frameLog = AppSteps
    /\ ~isPaused

\* C19 (no stuck animation flag): in every state where isFocusing is true a
\* focus or reset closure is waiting to run, in the frame in progress or in the
\* next one, also after a click whose raycast hit is a label sprite.
C19_NoStuckFlag == isFocusing => Pending # <<>>

\* The frame callback about to run is a focus closure at or past its end.
FocusCompleting ==
    /\ running # <<>>
    /\ Head(running).fn = "focusAnimate"
    /\ ~Unfinished(Progress(clock - Head(running).startTime, Head(running).durationMs))

\* The end target of focus closure cb is where its body is now.
Aimed(cb) ==
    /\ GetPlanetById(planets, cb.planet) # 0
    /\ cb.targetFocus = Scaled(planets[GetPlanetById(planets, cb.planet)].position, CoordScale)

\* A focus closure is waiting to run.
PendingFocus == Pending # <<>> /\ Pending[1].fn = "focusAnimate"

\* A focus closure is waiting to run and its end target is where its body is.
PendingAimed == PendingFocus /\ Aimed(Pending[1])

NoAnimation == ~isFocusing /\ Pending = <<>>

\* Object obj is the mesh whose id is id.
MeshOf(obj, id) ==
    /\ obj.kind = "mesh"
    /\ planets[obj.idx].id = id

\* C21 (panel follows the camera): whenever the info panel is visible and no
\* animation is active, the panel's body is the body of the last completed
\* focus animation.  As steps: the step that completes a focus animation with
\* the panel visible leaves in the panel the body the animation focused on, and
\* a step between two states without an animation that ends with the panel
\* visible started with it visible and keeps its body.
C21_PanelFollowsFocus ==
    [][/\ (FocusCompleting /\ Animate /\ panelVisible')
          => MeshOf(currentPlanet', Head(running).planet)
       /\ (NoAnimation /\ NoAnimation' /\ panelVisible')
          => (panelVisible /\ currentPlanet' = currentPlanet)]_vars

\* C22 (panel implies pause): in every state where the info panel is visible
\* planetSystem.isPaused is true.
C22_PanelPaused == panelVisible => isPaused

\* The simulation is paused and no body has been shown since the panel was
\* last hidden: show is the only other writer of isPaused = true and it sets
\* currentPlanet, so this pause comes from togglePlayPause.
UserPaused == isPaused /\ currentPlanet = NoObject

\* C23 (user pause persists): a pause set with the play/pause control stays
\* until the control is used again; the Escape key, the close button and Reset
\* View, taken while the simulation is paused by the user, leave isPaused true.
C23_UserPausePersists ==
    [][(UserPaused /\ (CloseInfo \/ \E late \in 0..MaxLate : ResetView(late)))
        => isPaused']_vars

\* C24 (button label): in every state the play/pause button reads "Play"
\* exactly when planetSystem.isPaused is true and "Pause" exactly when it is
\* false.
C24_ButtonLabel ==
    /\ btnText \in {"Play", "Pause"}
    /\ (btnText = "Play") <=> isPaused

\* C24 witness: a panel was shown (pause, "Play") and the play/pause control
\* was then used with the panel still open: the simulation runs and the button
\* reads "Pause".
C24_Witness ==
    /\ panelVisible
    /\ currentPlanet.kind = "mesh"
    /\ ~isPaused
    /\ btnText = "Pause"

====
